---------------------------- MODULE Spec2Model ----------------------------
(***************************************************************************)
(* autogen.py: generate_bodies samples n bodies and renders them as a      *)
(* properties document; main writes the document to a file, calls          *)
(* visualize_distributions and prints statistics of a fresh sample.        *)
(*                                                                         *)
(* Text is modelled character by character: a string is a sequence of      *)
(* one-character strings.  Real numbers are binary fixed point with Den    *)
(* parts per unit (every such value is an exact binary float), so that     *)
(* the ".1f" conversion has its exact ties (0.25, 0.75, ...) in the model. *)
(***************************************************************************)
EXTENDS Integers, Sequences, FiniteSets, TLC

\* ------------------------------------------------------------------ bounds

\* Largest n_bodies a direct caller of generate_bodies passes.
MaxBodies == 2

\* The n_bodies of main (100 in the source), scaled down.
MainBodies == 1

\* ------------------------------------------------ numbers and their text

\* Fixed-point parts per unit: a value v stands for the real number v / Den.
Den == 2 ^ 5

\* Defaults of generate_bodies and visualize_distributions, in whole units.
DefaultPositionScale == 1000
DefaultVelocityScale == 30
DefaultMassScale == 10000
\* Default density 0.1, in tenths.
DefaultDensity == 1

Abs(x) == IF x < 0 THEN -x ELSE x

DigitChars == <<"0", "1", "2", "3", "4", "5", "6", "7", "8", "9">>

\* str(int) of a natural number: its decimal digits.
RECURSIVE StrNat(_)
StrNat(n) ==
    IF n < 10 THEN <<DigitChars[n + 1]>>
    ELSE StrNat(n \div 10) \o <<DigitChars[(n % 10) + 1]>>

\* The number of tenths nearest to num / den (num >= 0, den > 0), exact ties
\* going to the even tenth: what format(x, ".1f") does with the exact value.
TenthsOf(num, den) ==
    LET a == 10 * num
        t == a \div den
        r == a % den
    IN  IF 2 * r > den \/ (2 * r = den /\ t % 2 = 1) THEN t + 1 ELSE t

\* Mutant: the tenths are cut off instead of rounded.
Mut_RoundTenths_Truncates(x) == (10 * Abs(x)) \div Den

\* The tenths format(x, ".1f") prints for the magnitude of x.
RoundTenths(x) == TenthsOf(Abs(x), Den)

\* The digits of t tenths: integer digits, point, one decimal.
TenthsText(t) == StrNat(t \div 10) \o <<".">> \o <<DigitChars[(t % 10) + 1]>>

\* format(x, ".1f"): sign (kept even when the digits round to 0.0), integer
\* digits, point, one decimal.
FormatF1(x) ==
    (IF x < 0 THEN <<"-">> ELSE <<>>) \o TenthsText(RoundTenths(x))

\* f"{a / b:.1f}" for positive a and b.
FormatRatioF1(a, b) == TenthsText(TenthsOf(a, b))

\* str(density) for a float given in tenths (0.1 -> "0.1", 1.0 -> "1.0").
StrFloat(d) == TenthsText(d)

\* sep.join(parts)
RECURSIVE Join(_, _)
Join(parts, sep) ==
    IF Len(parts) = 0 THEN <<>>
    ELSE IF Len(parts) = 1 THEN parts[1]
    ELSE parts[1] \o sep \o Join(Tail(parts), sep)

\* ------------------------------------------------------- literal fragments

TxtSetup ==
    <<"#"," ","P","h","y","s","i","c","s"," ","s","y","s","t","e","m"," ","s","e","t","u","p">>
TxtSystemName ==
    <<"#"," ","S","y","s","t","e","m"," ","n","a","m","e",":">>
TxtNameOpen ==
    <<"n","a","m","e","=","R","a","n","d","o","m"," ","S","y","s","t","e","m"," ","(">>
TxtNameClose ==
    <<" ","b","o","d","i","e","s",")">>
TxtGravityComment ==
    <<"#"," ","G","r","a","v","i","t","a","t","i","o","n","a","l"," ","c","o","n","s","t","a","n","t"," ","(","u","n","r","e","a","l","i","s","t","i","c"," ","u","n","i","t","s",")">>
TxtGravity ==
    <<"g","r","a","v","i","t","y","=","1","0",".","0">>
TxtTimeStepComment ==
    <<"#"," ","S","i","m","u","l","a","t","i","o","n"," ","t","i","m","e"," ","s","t","e","p"," ","(","s","e","c","o","n","d","s",")">>
TxtTimeStep ==
    <<"t","i","m","e","S","t","e","p","=","0",".","0","0","4">>
TxtKeysComment ==
    <<"#"," ","K","e","y","s"," ","f","o","r"," ","d","e","f","i","n","e","d"," ","b","o","d","i","e","s">>
TxtBody ==
    <<"b","o","d","y">>
TxtBodies ==
    <<"b","o","d","i","e","s","=">>
TxtBodyComment ==
    <<"#"," ","B","o","d","y"," ">>
TxtName ==
    <<".","n","a","m","e","=","B","o","d","y"," ">>
TxtMass ==
    <<".","m","a","s","s","=">>
TxtDensity ==
    <<".","d","e","n","s","i","t","y","=">>
TxtPosition ==
    <<".","p","o","s","i","t","i","o","n","=">>
TxtVelocity ==
    <<".","v","e","l","o","c","i","t","y","=">>
TxtColor ==
    <<".","c","o","l","o","r","=","2","0","0",",","2","0","0",",","2","0","0">>

\* --------------------------------------------- generate_bodies: rendering

\* Mutant: the keys are numbered from 1.
Mut_body_keys_OneBased(n) == [k \in 1..n |-> TxtBody \o StrNat(k)]

\* body_keys = [f"body{i}" for i in range(n_bodies)]  (1-indexed here)
body_keys(n) == [k \in 1..n |-> TxtBody \o StrNat(k - 1)]

\* Mutant: the gravity line is computed from the body count.
Mut_Header_GravityFromCount(n) ==
    << TxtSetup,
       <<>>,
       TxtSystemName,
       TxtNameOpen \o StrNat(n) \o TxtNameClose,
       TxtGravityComment,
       <<"g","r","a","v","i","t","y","=">> \o FormatF1(10 * Den * n),
       TxtTimeStepComment,
       TxtTimeStep,
       TxtKeysComment >>

\* The nine lines appended before the keys line.
Header(n) ==
    << TxtSetup,
       <<>>,
       TxtSystemName,
       TxtNameOpen \o StrNat(n) \o TxtNameClose,
       TxtGravityComment,
       TxtGravity,
       TxtTimeStepComment,
       TxtTimeStep,
       TxtKeysComment >>

\* Mutant: the last key is left off the keys line.
Mut_BodiesLine_DropsLast(keys) ==
    TxtBodies \o Join(SubSeq(keys, 1, Len(keys) - 1), <<" ">>)

\* f"bodies={' '.join(body_keys)}"
BodiesLine(keys) == TxtBodies \o Join(keys, <<" ">>)

\* Mutant: the first two components are written in the wrong order.
Mut_Triple_Swapped(v) ==
    FormatF1(v[2]) \o <<",">> \o FormatF1(v[1]) \o <<",">> \o FormatF1(v[3])

\* f"{a:.1f},{b:.1f},{c:.1f}"
Triple(v) ==
    FormatF1(v[1]) \o <<",">> \o FormatF1(v[2]) \o <<",">> \o FormatF1(v[3])

\* Mutant: the density line is missing from each section.
Mut_BodySection_NoDensity(k, keys, ms, dens, ps, vs) ==
    << TxtBodyComment \o StrNat(k - 1) \o <<":">>,
       keys[k] \o TxtName \o StrNat(k - 1),
       keys[k] \o TxtMass \o FormatF1(ms[k]),
       keys[k] \o TxtPosition \o Triple(ps[k]),
       keys[k] \o TxtVelocity \o Triple(vs[k]),
       keys[k] \o TxtColor,
       <<>> >>

\* One iteration of the loop over the bodies: the eight lines of body k
\* (ordinal k - 1).
BodySection(k, keys, ms, dens, ps, vs) ==
    << TxtBodyComment \o StrNat(k - 1) \o <<":">>,
       keys[k] \o TxtName \o StrNat(k - 1),
       keys[k] \o TxtMass \o FormatF1(ms[k]),
       keys[k] \o TxtDensity \o StrFloat(dens),
       keys[k] \o TxtPosition \o Triple(ps[k]),
       keys[k] \o TxtVelocity \o Triple(vs[k]),
       keys[k] \o TxtColor,
       <<>> >>

\* Mutant: the loop runs over the bodies in descending order.
RECURSIVE Mut_BodySections_Descending(_, _, _, _, _, _)
Mut_BodySections_Descending(k, keys, ms, dens, ps, vs) ==
    IF k = 0 THEN <<>>
    ELSE BodySection(k, keys, ms, dens, ps, vs)
         \o Mut_BodySections_Descending(k - 1, keys, ms, dens, ps, vs)

\* The loop "for i in range(n_bodies)" run for its first k iterations.
RECURSIVE BodySections(_, _, _, _, _, _)
BodySections(k, keys, ms, dens, ps, vs) ==
    IF k = 0 THEN <<>>
    ELSE BodySections(k - 1, keys, ms, dens, ps, vs)
         \o BodySection(k, keys, ms, dens, ps, vs)

\* The list "output" when the function returns.
Output(n, ms, dens, ps, vs) ==
    LET keys == body_keys(n)
    IN  Header(n) \o <<BodiesLine(keys), <<>>>>
        \o BodySections(n, keys, ms, dens, ps, vs)

\* return "\n".join(output)
Render(n, ms, dens, ps, vs) == Join(Output(n, ms, dens, ps, vs), <<"\n">>)

\* ------------------------------------------------------------ the sampler

\* Rows of three standard-normal variates, in parts of Den.
ZRows == { <<-1, 8, 37>>, <<24, -40, 0>> }

\* np.random.normal(0, scale, (n, 3)): loc + scale * z for each variate.
NormalMatrices(scale, n) ==
    { [k \in 1..n |-> [j \in 1..3 |-> 0 + scale * zs[k][j]]] :
        zs \in [1..n -> ZRows] }

\* Values np.random.uniform(low, high) returns: some of [low, high).
UniformValues(low, high) == { low, (low + high) \div 2, high - 1 }

\* np.random.uniform(low, high, n)
UniformVectors(low, high, n) == [1..n -> UniformValues(low, high)]

\* np.random.shuffle(a): a, permuted in place.
Shuffles(a) ==
    { [k \in 1..Len(a) |-> a[p[k]]] : p \in Permutations(1..Len(a)) }

\* scipy.stats.zipf.pmf(k, 1.5) in ten-thousandths, k = 1 .. 6.
ZipfPmf == <<3828, 1353, 737, 478, 342, 260>>

\* zipf.pmf(ranks, 1.5) * 10000 * n_bodies with ranks = 1 .. n_bodies, in
\* parts of Den (the division by the table's 10000 is done in two halves to
\* stay within 32 bits).
ZipfMasses(n) ==
    [k \in 1..n |-> (ZipfPmf[k] * (DefaultMassScale \div 100) * n * Den) \div 100]

\* ------------------------------------------------------------------ state

VARIABLES
    pc,              \* where control is
    entry,           \* "call": generate_bodies called directly; "main": the script
    n_bodies, position_scale, velocity_scale, mass_scale, density,
                     \* arguments of generate_bodies (mass_scale in parts of
                     \* Den, density in tenths)
    positions, velocities, masses,   \* the arrays sampled by generate_bodies
    document,        \* the text generate_bodies returns (system_config in main)
    rng,             \* variates consumed from the process-wide random stream
    draws,           \* the sampling calls made so far, in order
    fs,              \* the files: name -> content, or NoFile
    opened,          \* files open for writing
    writes,          \* names of the files opened for writing, in order
    vis,             \* locals of visualize_distributions while it runs
    shown,           \* whether plt.show() displayed the figure
    stats,           \* locals of main's statistics block
    stdout           \* what was printed: templates with their formatted fields

vars == << pc, entry, n_bodies, position_scale, velocity_scale, mass_scale,
           density, positions, velocities, masses, document, rng, draws, fs,
           opened, writes, vis, shown, stats, stdout >>

genArgs == << n_bodies, position_scale, velocity_scale, mass_scale, density >>
genLocals == << positions, velocities, masses >>
mainState == << fs, opened, writes, vis, shown, stats, stdout >>

NoFile == << "no file" >>
NoLocals == [positions |-> <<>>, velocities |-> <<>>, masses |-> <<>>]
OutFile == "random_system.properties"
PngFile == "body_distributions.png"
FileNames == { OutFile, PngFile }

\* What 'random_system.properties' holds before the run: nothing, or an
\* earlier run's text.  A direct call of generate_bodies touches no file, so
\* only main's runs start from both.
OldFiles(e) == IF e = "main" THEN { NoFile, <<"o", "l", "d">> } ELSE { NoFile }

\* One sampling call consuming count variates of the stream.
Draw(by, line, count) == [by |-> by, line |-> line, first |-> rng, count |-> count]

Consume(by, line, count) ==
    /\ draws' = Append(draws, Draw(by, line, count))
    /\ rng' = rng + count

\* Direct calls of generate_bodies: position_scale, velocity_scale (whole
\* units), mass_scale (parts of Den, with mass_scale / 10 exact), density
\* (tenths).
CallArgs ==
    { <<DefaultPositionScale, DefaultVelocityScale, DefaultMassScale * Den, DefaultDensity>>,
      <<1, DefaultVelocityScale, 200, DefaultDensity>>,
      <<DefaultPositionScale, 2, 40, 25>>,
      <<1, 2, 320, 10>> }

Init ==
    /\ pc = "entry"
    /\ entry \in {"call", "main"}
    /\ n_bodies = 0 /\ position_scale = 0 /\ velocity_scale = 0
    /\ mass_scale = 0 /\ density = 0
    /\ positions = <<>> /\ velocities = <<>> /\ masses = <<>>
    /\ document = <<>>
    /\ rng = 0
    /\ draws = <<>>
    /\ fs \in { [f \in FileNames |-> IF f = OutFile THEN old ELSE NoFile] :
                  old \in OldFiles(entry) }
    /\ opened = {}
    /\ writes = <<>>
    /\ vis = NoLocals
    /\ shown = FALSE
    /\ stats = NoLocals
    /\ stdout = <<>>

\* A caller invokes generate_bodies(n, ps, vs, ms, d).
Call ==
    /\ pc = "entry" /\ entry = "call"
    /\ \E n \in 0..MaxBodies, a \in CallArgs :
         /\ n_bodies' = n
         /\ position_scale' = a[1]
         /\ velocity_scale' = a[2]
         /\ mass_scale' = a[3]
         /\ density' = a[4]
    /\ pc' = "gen_positions"
    /\ UNCHANGED << entry, genLocals, document, rng, draws, mainState >>

\* main: n_bodies = 100; generate_bodies(n_bodies) with the defaults.
MainStart ==
    /\ pc = "entry" /\ entry = "main"
    /\ n_bodies' = MainBodies
    /\ position_scale' = DefaultPositionScale
    /\ velocity_scale' = DefaultVelocityScale
    /\ mass_scale' = DefaultMassScale * Den
    /\ density' = DefaultDensity
    /\ pc' = "gen_positions"
    /\ UNCHANGED << entry, genLocals, document, rng, draws, mainState >>

\* positions = np.random.normal(0, position_scale, (n_bodies, 3))
GenPositions ==
    /\ pc = "gen_positions"
    /\ positions' \in NormalMatrices(position_scale, n_bodies)
    /\ Consume("generate_bodies", 25, 3 * n_bodies)
    /\ pc' = "gen_velocities"
    /\ UNCHANGED << entry, genArgs, velocities, masses, document, mainState >>

\* velocities = np.random.normal(0, velocity_scale, (n_bodies, 3))
GenVelocities ==
    /\ pc = "gen_velocities"
    /\ velocities' \in NormalMatrices(velocity_scale, n_bodies)
    /\ Consume("generate_bodies", 28, 3 * n_bodies)
    /\ pc' = "gen_masses"
    /\ UNCHANGED << entry, genArgs, positions, masses, document, mainState >>

\* masses = np.random.uniform(mass_scale/10, mass_scale*2, n_bodies)
GenMasses ==
    /\ pc = "gen_masses"
    /\ masses' \in UniformVectors(mass_scale \div 10, mass_scale * 2, n_bodies)
    /\ Consume("generate_bodies", 32, n_bodies)
    /\ pc' = "gen_shuffle"
    /\ UNCHANGED << entry, genArgs, positions, velocities, document, mainState >>

\* np.random.shuffle(masses)
GenShuffle ==
    /\ pc = "gen_shuffle"
    /\ masses' \in Shuffles(masses)
    /\ Consume("generate_bodies", 33, IF n_bodies > 1 THEN n_bodies - 1 ELSE 0)
    /\ pc' = "gen_render"
    /\ UNCHANGED << entry, genArgs, positions, velocities, document, mainState >>

\* output = [] ... return "\n".join(output)
GenRender ==
    /\ pc = "gen_render"
    /\ document' = Render(n_bodies, masses, density, positions, velocities)
    /\ pc' = IF entry = "main" THEN "write" ELSE "returned"
    /\ UNCHANGED << entry, genArgs, genLocals, rng, draws, mainState >>

\* with open('random_system.properties', 'w') as f: f.write(system_config)
WriteFile ==
    /\ pc = "write"
    /\ fs' = [fs EXCEPT ![OutFile] = document]
    /\ writes' = Append(writes, OutFile)
    /\ opened' = (opened \cup {OutFile}) \ {OutFile}
    /\ pc' = "vis_positions"
    /\ UNCHANGED << entry, genArgs, genLocals, document, rng, draws, vis,
                    shown, stats, stdout >>

\* visualize_distributions(n_bodies):
\* positions = np.random.normal(0, position_scale, (n_bodies, 3))
VisPositions ==
    /\ pc = "vis_positions"
    /\ \E m \in NormalMatrices(DefaultPositionScale, n_bodies) :
         vis' = [vis EXCEPT !.positions = m]
    /\ Consume("visualize_distributions", 69, 3 * n_bodies)
    /\ pc' = "vis_velocities"
    /\ UNCHANGED << entry, genArgs, genLocals, document, fs, opened, writes,
                    shown, stats, stdout >>

\* velocities = np.random.normal(0, velocity_scale, (n_bodies, 3))
VisVelocities ==
    /\ pc = "vis_velocities"
    /\ \E m \in NormalMatrices(DefaultVelocityScale, n_bodies) :
         vis' = [vis EXCEPT !.velocities = m]
    /\ Consume("visualize_distributions", 70, 3 * n_bodies)
    /\ pc' = "vis_masses"
    /\ UNCHANGED << entry, genArgs, genLocals, document, fs, opened, writes,
                    shown, stats, stdout >>

\* ranks = np.arange(1, n_bodies + 1)
\* masses = zipf.pmf(ranks, zipf_param) * mass_scale * n_bodies
\* np.random.shuffle(masses)
VisMasses ==
    /\ pc = "vis_masses"
    /\ \E m \in Shuffles(ZipfMasses(n_bodies)) :
         vis' = [vis EXCEPT !.masses = m]
    /\ Consume("visualize_distributions", 73,
               IF n_bodies > 1 THEN n_bodies - 1 ELSE 0)
    /\ pc' = "vis_plot"
    /\ UNCHANGED << entry, genArgs, genLocals, document, fs, opened, writes,
                    shown, stats, stdout >>

\* Mutant: the figure is saved to 'body_distributions.png' before it is shown.
Mut_VisShow_SavesFigure ==
    /\ pc = "vis_plot"
    /\ Len(vis.masses) > 0
    /\ fs' = [fs EXCEPT ![PngFile] = <<"p", "n", "g">>]
    /\ writes' = Append(writes, PngFile)
    /\ shown' = TRUE
    /\ vis' = NoLocals
    /\ pc' = "print"
    /\ UNCHANGED << entry, genArgs, genLocals, document, rng, draws, opened,
                    stats, stdout >>

\* plt.subplots ... plt.tight_layout(); plt.show(): the figure is displayed
\* and the function returns; nothing is saved.
VisShow ==
    /\ pc = "vis_plot"
    /\ Len(vis.masses) > 0
    /\ shown' = TRUE
    /\ vis' = NoLocals
    /\ pc' = "print"
    /\ UNCHANGED << entry, genArgs, genLocals, document, rng, draws, fs,
                    opened, writes, stats, stdout >>

\* Mutant: main catches the visualizer's exception and carries on.
Mut_VisRaise_Caught ==
    /\ pc = "vis_plot"
    /\ vis' = NoLocals
    /\ pc' = "print"
    /\ UNCHANGED << entry, genArgs, genLocals, document, rng, draws, fs,
                    opened, writes, shown, stats, stdout >>

\* A plotting call raises (no display, no backend): nothing in
\* visualize_distributions or main catches it, and the process ends.
VisRaise ==
    /\ pc = "vis_plot"
    /\ vis' = NoLocals
    /\ pc' = "crashed"
    /\ UNCHANGED << entry, genArgs, genLocals, document, rng, draws, fs,
                    opened, writes, shown, stats, stdout >>

GeneratedLine(n) ==
    [msg |-> "Generated {n_bodies} bodies in 'random_system.properties'",
     args |-> <<StrNat(n)>>]

SavedLine ==
    [msg |-> "Visualization saved to 'body_distributions.png'", args |-> <<>>]

\* print(f"Generated {n_bodies} bodies in 'random_system.properties'")
\* print("Visualization saved to 'body_distributions.png'")
PrintGenerated ==
    /\ pc = "print"
    /\ stdout' = stdout \o << GeneratedLine(n_bodies), SavedLine >>
    /\ pc' = "stats_positions"
    /\ UNCHANGED << entry, genArgs, genLocals, document, rng, draws, fs,
                    opened, writes, vis, shown, stats >>

\* Mutant: the statistics reuse the generator's positions instead of drawing.
Mut_StatsPositions_ReusesGenerated ==
    /\ pc = "stats_positions"
    /\ stats' = [stats EXCEPT !.positions = positions]
    /\ pc' = "stats_velocities"
    /\ UNCHANGED << entry, genArgs, genLocals, document, rng, draws, fs,
                    opened, writes, vis, shown, stdout >>

\* positions = np.random.normal(0, 1000, (n_bodies, 3))
StatsPositions ==
    /\ pc = "stats_positions"
    /\ \E m \in NormalMatrices(1000, n_bodies) :
         stats' = [stats EXCEPT !.positions = m]
    /\ Consume("main", 124, 3 * n_bodies)
    /\ pc' = "stats_velocities"
    /\ UNCHANGED << entry, genArgs, genLocals, document, fs, opened, writes,
                    vis, shown, stdout >>

\* velocities = np.random.normal(0, 30, (n_bodies, 3))
StatsVelocities ==
    /\ pc = "stats_velocities"
    /\ \E m \in NormalMatrices(30, n_bodies) :
         stats' = [stats EXCEPT !.velocities = m]
    /\ Consume("main", 125, 3 * n_bodies)
    /\ pc' = "stats_print"
    /\ UNCHANGED << entry, genArgs, genLocals, document, fs, opened, writes,
                    vis, shown, stdout >>

Components(m) == { m[k][j] : k \in DOMAIN m, j \in 1..3 }
Elements(v) == { v[k] : k \in DOMAIN v }
Min(S) == CHOOSE x \in S : \A y \in S : x <= y
Max(S) == CHOOSE x \in S : \A y \in S : x >= y

\* The five lines of the statistics block.
StatsLines(ps, vs, ms) ==
    << [msg |-> "\nStatistics:", args |-> <<>>],
       [msg |-> "Position range: [{positions.min():.1f}, {positions.max():.1f}]",
        args |-> << FormatF1(Min(Components(ps))), FormatF1(Max(Components(ps))) >>],
       [msg |-> "Velocity range: [{velocities.min():.1f}, {velocities.max():.1f}]",
        args |-> << FormatF1(Min(Components(vs))), FormatF1(Max(Components(vs))) >>],
       [msg |-> "Mass range: [{masses.min():.1f}, {masses.max():.1f}]",
        args |-> << FormatF1(Min(Elements(ms))), FormatF1(Max(Elements(ms))) >>],
       [msg |-> "Largest mass / smallest mass: {masses.max()/masses.min():.1f}",
        args |-> << FormatRatioF1(Max(Elements(ms)), Min(Elements(ms))) >>] >>

\* ranks = np.arange(1, n_bodies + 1)
\* masses = zipf.pmf(ranks, 1.5) * 10000 * n_bodies
\* print(...) five times; main returns.
StatsPrint ==
    /\ pc = "stats_print"
    /\ LET ms == ZipfMasses(n_bodies)
       IN  /\ stats' = [stats EXCEPT !.masses = ms]
           /\ stdout' = stdout \o StatsLines(stats.positions, stats.velocities, ms)
    /\ pc' = "done"
    /\ UNCHANGED << entry, genArgs, genLocals, document, rng, draws, fs,
                    opened, writes, vis, shown >>

\* ------------------------------------------------------ the specification

Next ==
    \/ Call
    \/ MainStart
    \/ GenPositions
    \/ GenVelocities
    \/ GenMasses
    \/ GenShuffle
    \/ GenRender
    \/ WriteFile
    \/ VisPositions
    \/ VisVelocities
    \/ VisMasses
    \/ VisShow
    \/ VisRaise
    \/ PrintGenerated
    \/ StatsPositions
    \/ StatsVelocities
    \/ StatsPrint

Spec == Init /\ [][Next]_vars

\* ---------------------------------------------- a line-oriented reader

\* s.split(c): the pieces of s between the occurrences of c.
Split(s, c) ==
    LET seps == { i \in 1..Len(s) : s[i] = c }
        n == Cardinality(seps)
        Nth(k) == CHOOSE p \in seps : Cardinality({ q \in seps : q < p }) = k - 1
    IN  [k \in 1..(n + 1) |->
            SubSeq(s, IF k = 1 THEN 1 ELSE Nth(k - 1) + 1,
                      IF k = n + 1 THEN Len(s) ELSE Nth(k) - 1)]

\* The lines of a document.
Lines(doc) == Split(doc, "\n")

\* The space-separated keys of a value (none when it is empty).
Tokens(v) == IF v = <<>> THEN <<>> ELSE Split(v, " ")

Has(l, c) == \E i \in 1..Len(l) : l[i] = c
First(l, c) == CHOOSE i \in 1..Len(l) : l[i] = c /\ \A j \in 1..(i - 1) : l[j] # c

IsComment(l) == Len(l) > 0 /\ l[1] = "#"
\* A key=value line.
IsEntry(l) == ~IsComment(l) /\ Has(l, "=")
KeyOf(l) == SubSeq(l, 1, First(l, "=") - 1)
ValueOf(l) == SubSeq(l, First(l, "=") + 1, Len(l))

\* A key of the form body.field, and its two parts.
IsDotted(key) == Has(key, ".")
BodyOf(key) == SubSeq(key, 1, First(key, ".") - 1)
FieldOf(key) == SubSeq(key, First(key, "."), Len(key))

IsDigit(c) == \E d \in 1..10 : DigitChars[d] = c
DigitValue(c) == (CHOOSE d \in 1..10 : DigitChars[d] = c) - 1

\* A non-empty string of digits without a superfluous leading zero.
IsNat(t) ==
    /\ Len(t) > 0
    /\ \A i \in 1..Len(t) : IsDigit(t[i])
    /\ (Len(t) > 1 => t[1] # "0")

RECURSIVE ParseNat(_)
ParseNat(t) ==
    IF Len(t) = 0 THEN 0
    ELSE 10 * ParseNat(SubSeq(t, 1, Len(t) - 1)) + DigitValue(t[Len(t)])

Unsigned(t) == IF Len(t) > 0 /\ t[1] = "-" THEN Tail(t) ELSE t

\* A decimal number with one decimal place: -?digits.digit
IsDecimal1(t) ==
    LET u == Unsigned(t)
    IN  /\ Len(u) >= 3
        /\ u[Len(u) - 1] = "."
        /\ IsDigit(u[Len(u)])
        /\ IsNat(SubSeq(u, 1, Len(u) - 2))

\* Its value in tenths.
ParseTenths(t) ==
    LET u == Unsigned(t)
        m == 10 * ParseNat(SubSeq(u, 1, Len(u) - 2)) + DigitValue(u[Len(u)])
    IN  IF Len(t) > 0 /\ t[1] = "-" THEN -m ELSE m

\* generate_bodies has just returned its document (to its caller, or to
\* main as system_config); the document is never changed afterwards.
Returned == pc \in { "returned", "write" }

\* What the reader makes of a document: one record per key=value line, with
\* the line's number, its key and its value.
Read(doc) ==
    LET ls == Lines(doc)
    IN  { [line |-> i, key |-> KeyOf(ls[i]), value |-> ValueOf(ls[i])] :
            i \in { j \in DOMAIN ls : IsEntry(ls[j]) } }

\* The records with a given key, and the value of the only one.
WithKey(recs, key) == { r \in recs : r.key = key }
ValueAt(recs, key) == (CHOOSE r \in recs : r.key = key).value
\* The records of the per-body lines (body.field=value).
Dotted(recs) == { r \in recs : IsDotted(r.key) }
\* The key "body{k}".
KeyText(k) == <<"b", "o", "d", "y">> \o StrNat(k)
KeyBodies == <<"b", "o", "d", "i", "e", "s">>

\* --------------------------------------------------------------- claims

\* C1: the document has a single bodies= line, and its value lists exactly
\* n_bodies space-separated keys, the k-th being "body" followed by the
\* decimal k (k = 0 .. n_bodies - 1) in ascending order; for n_bodies = 0 the
\* value is empty.
C1_BodiesLineListsKeys ==
    Returned =>
        LET recs == Read(document)
            v == ValueAt(recs, KeyBodies)
            toks == Tokens(v)
        IN  /\ Cardinality(WithKey(recs, KeyBodies)) = 1
            /\ Len(toks) = n_bodies
            /\ n_bodies = 0 => v = <<>>
            /\ \A k \in 1..Len(toks) :
                 /\ Len(toks[k]) > 4
                 /\ SubSeq(toks[k], 1, 4) = <<"b", "o", "d", "y">>
                 /\ IsNat(SubSeq(toks[k], 5, Len(toks[k])))
                 /\ ParseNat(SubSeq(toks[k], 5, Len(toks[k]))) = k - 1

C1_Witness ==
    /\ pc = "returned"
    /\ n_bodies >= 2
    /\ Len(Tokens(ValueAt(Read(document), KeyBodies))) = n_bodies

\* C2: the set of keys on the bodies= line equals the set of key prefixes of
\* the per-body (body.field=value) lines.
C2_HeaderKeysMatchSections ==
    Returned =>
        LET recs == Read(document)
            toks == Tokens(ValueAt(recs, KeyBodies))
            listed == { toks[k] : k \in DOMAIN toks }
            sections == { BodyOf(r.key) : r \in Dotted(recs) }
        IN  listed = sections

C2_Witness ==
    /\ pc = "returned"
    /\ n_bodies >= 2
    /\ Cardinality({ BodyOf(r.key) : r \in Dotted(Read(document)) }) = n_bodies

FieldNames ==
    { <<".", "n", "a", "m", "e">>,
      <<".", "m", "a", "s", "s">>,
      <<".", "d", "e", "n", "s", "i", "t", "y">>,
      <<".", "p", "o", "s", "i", "t", "i", "o", "n">>,
      <<".", "v", "e", "l", "o", "c", "i", "t", "y">>,
      <<".", "c", "o", "l", "o", "r">> }

GlobalKeys ==
    { <<"n", "a", "m", "e">>,
      <<"g", "r", "a", "v", "i", "t", "y">>,
      <<"t", "i", "m", "e", "S", "t", "e", "p">>,
      KeyBodies }

\* C3: the reader finds each per-body field exactly n_bodies times, exactly
\* once for each key body0 .. body{n_bodies - 1}, each global key exactly
\* once, and no other key=value line.
C3_OneRecordPerBody ==
    Returned =>
        LET recs == Read(document)
            dotted == Dotted(recs)
        IN  /\ \A f \in FieldNames :
                 /\ Cardinality({ r \in dotted : FieldOf(r.key) = f }) = n_bodies
                 /\ \A k \in 0..(n_bodies - 1) :
                      Cardinality(WithKey(recs, KeyText(k) \o f)) = 1
            /\ \A g \in GlobalKeys : Cardinality(WithKey(recs, g)) = 1
            /\ Cardinality(recs) = 4 + 6 * n_bodies

C3_Witness ==
    /\ pc = "returned"
    /\ n_bodies >= 2
    /\ Cardinality(Read(document)) = 4 + 6 * n_bodies

\* The mass written for body k (k = 1 .. n_bodies), in tenths.
EmittedMass(recs, k) ==
    ParseTenths(ValueAt(recs, KeyText(k - 1) \o <<".", "m", "a", "s", "s">>))

\* C4 as stated: every mass written to the document lies in
\* [mass_scale/10, mass_scale*2].  (t tenths against v parts of Den:
\* t/10 >= v/Den iff t * Den >= 10 * v.)
C4_EmittedMassInInterval ==
    Returned =>
        LET recs == Read(document)
        IN  \A k \in 1..n_bodies :
              /\ EmittedMass(recs, k) * Den >= 10 * (mass_scale \div 10)
              /\ EmittedMass(recs, k) * Den <= 10 * (mass_scale * 2)

\* Both ends of the sampling interval are whole tenths.
EndsAreTenths ==
    /\ (10 * (mass_scale \div 10)) % Den = 0
    /\ (10 * (mass_scale * 2)) % Den = 0

\* C4 amended: every sampled mass lies in [mass_scale/10, mass_scale*2), the
\* mass written for it is a one-decimal number within 0.05 of it, hence in
\* [mass_scale/10 - 0.05, mass_scale*2 + 0.05], and it lies in
\* [mass_scale/10, mass_scale*2] when both ends are whole tenths.
C4_EmittedMassNearInterval ==
    Returned =>
        LET recs == Read(document)
            low == mass_scale \div 10
            high == mass_scale * 2
        IN  \A k \in 1..n_bodies :
              LET t == EmittedMass(recs, k)
                  text == ValueAt(recs, KeyText(k - 1) \o <<".", "m", "a", "s", "s">>)
              IN  /\ IsDecimal1(text)
                  /\ low <= masses[k] /\ masses[k] < high
                  /\ 2 * Abs(t * Den - 10 * masses[k]) <= Den
                  /\ 2 * (t * Den - 10 * low) >= -Den
                  /\ 2 * (t * Den - 10 * high) <= Den
                  /\ EndsAreTenths =>
                       (t * Den >= 10 * low /\ t * Den <= 10 * high)

\* A returned document in which a mass is written below mass_scale/10
\* (0.625 sampled from [0.625, 12.5) and written 0.6).
C4_Witness ==
    /\ pc = "returned"
    /\ n_bodies >= 1
    /\ \E k \in 1..n_bodies :
         EmittedMass(Read(document), k) * Den < 10 * (mass_scale \div 10)

\* C5: the document has the line gravity=10.0 and the line timeStep=0.004,
\* each exactly once, and no other line sets gravity or timeStep, whatever
\* the arguments and the sampled values.
C5_FixedConstants ==
    Returned =>
        LET ls == Lines(document)
            recs == Read(document)
        IN  /\ Cardinality({ i \in DOMAIN ls :
                  ls[i] = <<"g","r","a","v","i","t","y","=","1","0",".","0">> }) = 1
            /\ Cardinality({ i \in DOMAIN ls :
                  ls[i] = <<"t","i","m","e","S","t","e","p","=","0",".","0","0","4">> }) = 1
            /\ Cardinality(WithKey(recs, <<"g","r","a","v","i","t","y">>)) = 1
            /\ Cardinality(WithKey(recs, <<"t","i","m","e","S","t","e","p">>)) = 1

C5_Witness ==
    /\ pc = "returned"
    /\ n_bodies >= 1
    /\ mass_scale # DefaultMassScale * Den
    /\ position_scale # DefaultPositionScale
    /\ ValueAt(Read(document), <<"g","r","a","v","i","t","y">>) = <<"1","0",".","0">>

\* The text is three comma-separated one-decimal numbers, the j-th within
\* 0.05 of the j-th component of v and of its sign.
IsTripleOf(text, v) ==
    LET parts == Split(text, ",")
    IN  /\ Len(parts) = 3
        /\ \A j \in 1..3 :
             /\ IsDecimal1(parts[j])
             /\ 2 * Abs(ParseTenths(parts[j]) * Den - 10 * v[j]) <= Den
             /\ (parts[j][1] = "-") <=> (v[j] < 0)

\* C6: for every body, the value of its .position line and of its .velocity
\* line is exactly three comma-separated decimal numbers with one decimal
\* place: the body's sampled x, y, z components, in that order.
C6_ThreeComponents ==
    Returned =>
        LET recs == Read(document)
        IN  \A k \in 1..n_bodies :
              /\ IsTripleOf(ValueAt(recs, KeyText(k - 1)
                     \o <<".", "p", "o", "s", "i", "t", "i", "o", "n">>), positions[k])
              /\ IsTripleOf(ValueAt(recs, KeyText(k - 1)
                     \o <<".", "v", "e", "l", "o", "c", "i", "t", "y">>), velocities[k])

\* A body whose x position -1/32 is written "-0.0".
C6_Witness ==
    /\ pc = "returned"
    /\ n_bodies >= 1
    /\ positions[1][1] = -1
    /\ Split(ValueAt(Read(document),
           KeyText(0) \o <<".", "p", "o", "s", "i", "t", "i", "o", "n">>), ",")[1]
         = <<"-", "0", ".", "0">>

\* C7: the only file ever opened for writing is 'random_system.properties',
\* at most once, and from then on it holds the generator's text;
\* 'body_distributions.png' never exists, also after main has printed that
\* the visualization was saved to it.
C7_OnlyPropertiesFileWritten ==
    /\ writes \in { <<>>, <<"random_system.properties">> }
    /\ fs["body_distributions.png"] = NoFile
    /\ pc \in { "vis_positions", "vis_velocities", "vis_masses", "vis_plot",
                "crashed", "print", "stats_positions", "stats_velocities",
                "stats_print", "done" } =>
         /\ writes = <<"random_system.properties">>
         /\ fs["random_system.properties"] = document
    /\ pc \in { "entry", "gen_positions", "gen_velocities", "gen_masses",
                "gen_shuffle", "gen_render", "write", "returned" } =>
         writes = <<>>

C7_Witness ==
    /\ pc = "done"
    /\ shown
    /\ \E i \in DOMAIN stdout :
         stdout[i].msg = "Visualization saved to 'body_distributions.png'"
    /\ fs["body_distributions.png"] = NoFile
    /\ writes = <<"random_system.properties">>

\* The lines of body k's section start after the 9 header lines, the keys
\* line and the blank line, 8 lines per body.
SectionStart(k) == 11 + 8 * (k - 1)

StartsWith(l, prefix) ==
    Len(l) >= Len(prefix) /\ SubSeq(l, 1, Len(prefix)) = prefix

\* C8: after the keys line and a blank line, the sections follow in
\* ascending ordinal order, each exactly: "# Body {i}:", the .name, .mass,
\* .density, .position and .velocity lines of body{i}, its
\* .color=200,200,200 line and a blank line; every .density value is the
\* density argument; nothing follows the last section.
C8_SectionsInOrder ==
    Returned =>
        LET ls == Lines(document)
        IN  /\ Len(ls) = 11 + 8 * n_bodies
            /\ StartsWith(ls[10], KeyBodies \o <<"=">>)
            /\ ls[11] = <<>>
            /\ \A k \in 1..n_bodies :
                 LET at == SectionStart(k)
                     key == KeyText(k - 1)
                 IN  /\ ls[at + 1] = <<"#", " ", "B", "o", "d", "y", " ">>
                                       \o StrNat(k - 1) \o <<":">>
                     /\ StartsWith(ls[at + 2], key \o <<".", "n", "a", "m", "e", "=">>)
                     /\ StartsWith(ls[at + 3], key \o <<".", "m", "a", "s", "s", "=">>)
                     /\ ls[at + 4] = key \o <<".", "d", "e", "n", "s", "i", "t", "y", "=">>
                                       \o ValueOf(ls[at + 4])
                     /\ IsDecimal1(ValueOf(ls[at + 4]))
                     /\ ParseTenths(ValueOf(ls[at + 4])) = density
                     /\ StartsWith(ls[at + 5],
                            key \o <<".", "p", "o", "s", "i", "t", "i", "o", "n", "=">>)
                     /\ StartsWith(ls[at + 6],
                            key \o <<".", "v", "e", "l", "o", "c", "i", "t", "y", "=">>)
                     /\ ls[at + 7] = key \o <<".", "c", "o", "l", "o", "r", "=",
                                              "2", "0", "0", ",", "2", "0", "0", ",",
                                              "2", "0", "0">>
                     /\ ls[at + 8] = <<>>

C8_Witness ==
    /\ pc = "returned"
    /\ n_bodies >= 2
    /\ density = 25
    /\ Lines(document)[SectionStart(2) + 4]
         = <<"b", "o", "d", "y", "1", ".", "d", "e", "n", "s", "i", "t", "y", "=",
             "2", ".", "5">>

\* The sampling calls of a run of main, in order: function and source line.
MainDrawOrder ==
    << <<"generate_bodies", 25>>, <<"generate_bodies", 28>>,
       <<"generate_bodies", 32>>, <<"generate_bodies", 33>>,
       <<"visualize_distributions", 69>>, <<"visualize_distributions", 70>>,
       <<"visualize_distributions", 73>>,
       <<"main", 124>>, <<"main", 125>> >>

\* The statistics lines printed (the last five lines of stdout).
PrintedStats == SubSeq(stdout, Len(stdout) - 4, Len(stdout))

\* C9: generation, visualization and the statistics each draw afresh from
\* the one random stream, in that order: the draws are those of
\* MainDrawOrder, each starting where the one before ended (so no variate is
\* read twice), the visualizer's and the statistics' arrays are filled by
\* their own draws, and the printed statistics are those of main's own
\* sample, not of the one in the output file.
C9_FreshDrawsPerStage ==
    /\ Len(draws) <= Len(MainDrawOrder)
    /\ \A i \in DOMAIN draws :
         /\ <<draws[i].by, draws[i].line>> = MainDrawOrder[i]
         /\ draws[i].first = (IF i = 1 THEN 0
                              ELSE draws[i - 1].first + draws[i - 1].count)
    /\ rng = (IF draws = <<>> THEN 0
              ELSE draws[Len(draws)].first + draws[Len(draws)].count)
    /\ pc \in { "vis_velocities", "vis_masses", "vis_plot" } =>
         /\ Len(draws) >= 5
         /\ draws[5].count = 3 * n_bodies
         /\ Len(vis.positions) = n_bodies
    /\ pc \in { "stats_velocities", "stats_print", "done" } =>
         /\ Len(draws) >= 8
         /\ draws[8].count = 3 * n_bodies
         /\ Len(stats.positions) = n_bodies
    /\ pc = "done" =>
         /\ Len(draws) = 9
         /\ PrintedStats = StatsLines(stats.positions, stats.velocities,
                                      ZipfMasses(n_bodies))

\* A finished run whose printed position range is not the range of the
\* positions written to the file.
C9_Witness ==
    /\ pc = "done"
    /\ fs["random_system.properties"] = document
    /\ PrintedStats[2].args # << FormatF1(Min(Components(positions))),
                                 FormatF1(Max(Components(positions))) >>
    /\ PrintedStats[4].args # << FormatF1(Min(Elements(masses))),
                                 FormatF1(Max(Elements(masses))) >>

\* C10: while visualize_distributions runs, and after it has raised, the
\* output file holds the whole generated document and is closed, and
\* nothing has been printed; a run in which it raised stops there; main
\* prints only after the figure was shown.
C10_FileWrittenBeforeVisualizer ==
    /\ pc \in { "vis_positions", "vis_velocities", "vis_masses", "vis_plot",
                "crashed" } =>
         /\ fs["random_system.properties"] = document
         /\ document = Render(n_bodies, masses, density, positions, velocities)
         /\ opened = {}
         /\ stdout = <<>>
         /\ ~shown
    /\ pc = "crashed" => ~ENABLED Next
    /\ pc \in { "print", "stats_positions", "stats_velocities", "stats_print",
                "done" } => shown
    /\ stdout # <<>> => shown

C10_Witness ==
    /\ pc = "crashed"
    /\ fs["random_system.properties"] = document
    /\ Len(document) > 0
    /\ stdout = <<>>

=============================================================================
